---- MODULE Spec2Model ----
(***************************************************************************)
(* LokiLoggerHandler (loki_logger_handler.py): producers calling emit/write *)
(* push LogLine objects into a queue.Queue; a daemon flush thread runs      *)
(* _flush, whose passes (_send) drain the queue, group the lines by key     *)
(* and hand the batch to LokiRequest.send; _send is also registered with    *)
(* atexit and then runs once in the exiting thread.                         *)
(*                                                                         *)
(* Threads: the constructing thread (ctor), the producers, the flush        *)
(* thread, and the exiting thread running the atexit callback.  Each        *)
(* action is one statement (or one run of thread-local statements) of the   *)
(* source.  PutCount covers lines 167-173 in one step: its first access     *)
(* raises in every run, so the rest of the block is never interleaved.      *)
(***************************************************************************)
EXTENDS Integers, Sequences, FiniteSets, TLC

(* ---------------------------------------------------------------- bounds *)

\* Number of emit/write calls made during one behaviour.
MaxEmits == 2

\* Number of _put calls of one behaviour of LabelSpec.
MaxCalls == 2

\* Stands for timeout * 10, the number of 0.1 s polls of one waiting period.
PollsPerTimeout == 2

(* --------------------------------------------------------- configuration *)

Producers == {"p1", "p2"}

\* The threads that can run _send: the flush thread and the atexit callback.
Passers == {"flush", "exit"}

\* self.labels: the base labels given to the constructor.
labels == [app |-> "x"]

\* self.label_keys: record keys promoted to labels.
label_keys == {"level"}

\* The values max_stream_size is constructed with (0 disables the trigger).
MaxStreamSizes == {0, 60}

\* Stand-in for a field value that is not a str (an int): "_".join raises on it.
NonStrings == {"<5>"}

\* What formatter.format returns in the runs explored: flat dicts.
FormattedRecords ==
    { [level |-> "error", msg |-> "boom"],
      [msg |-> "hi"],
      [level |-> "<5>", msg |-> "boom"] }

\* The strings of the model in the order Python's sorted() puts them.
SortedStrings ==
    <<"<5>", "app", "boom", "env", "error", "hi", "level", "msg", "x", "y">>

\* The exception classes raised on the producer path and in a flush pass.
ProducerExceptions == {"FormatError", "TypeError", "AttributeError"}
PassExceptions == {"SerializeError", "SendError"}

\* The attributes __init__ assigns after it has started the flush thread.
LateAttrs == <<"message_in_json_format", "max_stream_size",
               "_current_stream_size", "_force_send">>

(* ------------------------------------------------------- pure functions *)

\* Position of a string in sorted() order.
Rank(s) == CHOOSE i \in 1..Len(SortedStrings) : SortedStrings[i] = s

RECURSIVE SortedSeq(_, _)
\* sorted(d.values()) for the values of d at the keys ks.
SortedSeq(d, ks) ==
    IF ks = {} THEN <<>>
    ELSE LET k == CHOOSE a \in ks : \A b \in ks : Rank(d[a]) <= Rank(d[b])
         IN  <<d[k]>> \o SortedSeq(d, ks \ {k})

RECURSIVE Join(_)
\* "_".join(seq)
Join(seq) ==
    IF seq = <<>> THEN ""
    ELSE IF Len(seq) = 1 THEN seq[1]
    ELSE seq[1] \o "_" \o Join(Tail(seq))

\* Mutant of _key_from_labels: sorted(labels), the names, not the values.
KeyFromNames(lbls) ==
    Join(SortedSeq([k \in DOMAIN lbls |-> k], DOMAIN lbls))

\* LogLine._key_from_labels
_key_from_labels(lbls) == Join(SortedSeq(lbls, DOMAIN lbls))

\* Whether _key_from_labels raises TypeError (join of a non-str value).
KeyRaises(lbls) == \E k \in DOMAIN lbls : lbls[k] \in NonStrings

RECURSIVE ItemsLen(_, _)
\* Sum over the items of d at ks of len('"k": "v"').
ItemsLen(d, ks) ==
    IF ks = {} THEN 0
    ELSE LET k == CHOOSE a \in ks : TRUE
         IN  Len(k) + Len(d[k]) + 6 + ItemsLen(d, ks \ {k})

\* len(json.dumps(d).encode("utf-8")) for a flat dict of ASCII strings:
\* braces, the items, and ", " between items.
JsonLen(d) ==
    LET n == Cardinality(DOMAIN d)
    IN  2 + ItemsLen(d, DOMAIN d) + (IF n > 1 THEN 2 * (n - 1) ELSE 0)

\* LogLine.size for a dict line.
size(lbls, line) == JsonLen(lbls) + JsonLen(line)

\* Mutant of DeriveLabelsFrom: a promoted field does not replace a base
\* label of the same name (labels.setdefault(key, log_record[key])).
DeriveLabelsBaseWins(base, keys, rec) ==
    LET promoted == {k \in keys : k \in DOMAIN rec}
    IN  [k \in (DOMAIN base) \cup promoted |->
            IF k \in DOMAIN base THEN base[k] ELSE rec[k]]

\* _put, lines 158-162, for base labels and label keys given: the copy of
\* the base labels with every label key present in the record assigned.
DeriveLabelsFrom(base, keys, rec) ==
    LET promoted == {k \in keys : k \in DOMAIN rec}
    IN  [k \in (DOMAIN base) \cup promoted |->
            IF k \in promoted THEN rec[k] ELSE base[k]]

\* _put, lines 158-162: the base labels overridden by the promoted fields.
DeriveLabels(rec) == DeriveLabelsFrom(labels, label_keys, rec)

\* Mutant of PutLabels: "labels = self.labels", the dict itself, no copy.
PutLabelsAliased(self_labels, keys, rec) ==
    LET derived == DeriveLabelsFrom(self_labels, keys, rec)
    IN  [self_labels |-> derived, labels |-> derived]

\* _put, lines 158-162, with its effect on self.labels: the assignments go
\* to the copy made at line 158, self.labels keeps its value.
PutLabels(self_labels, keys, rec) ==
    [self_labels |-> self_labels,
     labels |-> DeriveLabelsFrom(self_labels, keys, rec)]

\* LogLine(labels, line): the object pushed (id is the object's identity).
LogLine(id, lbls, line) ==
    [id |-> id, labels |-> lbls, key |-> _key_from_labels(lbls), line |-> line]

\* Mutant of EmitCatches: the try block guards the formatter call only.
EmitCatchesFormatOnly(e) == e = "FormatError"

\* "except Exception" of emit (lines 96-97): the classes it catches.
EmitCatches(e) == e \in ProducerExceptions \cup PassExceptions

\* Mutant of FlushCatches: _send is called outside any try block.
FlushCatchesNothing(e) == FALSE

\* "except Exception" of _flush (lines 110-111, 118-119).
FlushCatches(e) == e \in ProducerExceptions \cup PassExceptions

\* Mutant of QueueHasRoom: the buffer is a queue.Queue(maxsize=1).
QueueHasRoomForOne(buf) == Len(buf) < 1

\* queue.Queue(): maxsize 0, so put never waits for room.
QueueMaxSize == 0
QueueHasRoom(buf) == QueueMaxSize <= 0 \/ Len(buf) < QueueMaxSize

\* queue.Queue.put / get on the FIFO.
QueuePut(buf, item) == Append(buf, item)
QueueRest(buf) == Tail(buf)

\* Mutant of Group: the stream is created for every line, replacing the
\* stream the key already had (the "not in temp_streams" test is missing).
GroupOverwrite(streams, log) ==
    LET fresh == [key |-> log.key, labels |-> log.labels,
                  values |-> <<[id |-> log.id, line |-> log.line]>>]
    IN  IF \E i \in 1..Len(streams) : streams[i].key = log.key
        THEN [i \in 1..Len(streams) |->
                IF streams[i].key = log.key THEN fresh ELSE streams[i]]
        ELSE Append(streams, fresh)

\* Mutant of Group: a stream is created for every line (no lookup by key).
GroupAlwaysNew(streams, log) ==
    Append(streams, [key |-> log.key, labels |-> log.labels,
                     values |-> <<[id |-> log.id, line |-> log.line]>>])

\* _send, lines 132-136: append the line to the stream of its key,
\* creating the stream (with the entry's labels) when the key is new.
Group(streams, log) ==
    IF \E i \in 1..Len(streams) : streams[i].key = log.key
    THEN [i \in 1..Len(streams) |->
            IF streams[i].key = log.key
            THEN [streams[i] EXCEPT
                    !.values = Append(@, [id |-> log.id, line |-> log.line])]
            ELSE streams[i]]
    ELSE Append(streams, [key |-> log.key, labels |-> log.labels,
                          values |-> <<[id |-> log.id, line |-> log.line]>>])

\* Mutant of HasStreams: the batch is sent without the emptiness test.
HasStreamsAlways(streams) == TRUE

\* _send, line 138: "if temp_streams".
HasStreams(streams) == streams # <<>>

(* ----------------------------------------------------------------- state *)

VARIABLES
    ctor,                 \* position of __init__ after flush_thread.start()
    attrs,                \* the late attributes that exist on the handler
    max_stream_size,      \* self.max_stream_size (the constructor argument)
    current_stream_size,  \* self._current_stream_size
    force_send,           \* self._force_send
    buffer,               \* self.buffer, the queue's items in FIFO order
    ppc,                  \* producer -> position in emit/_put
    prec,                 \* producer -> formatted record of the call
    pline,                \* producer -> LogLine built by the call (or NoLine)
    pexc,                 \* producer -> pending exception ("" when none)
    fpc,                  \* position of the flush thread in _flush
    fi,                   \* the loop variable i of the waiting loop
    registered,           \* atexit.register(self._send) has run
    xpc,                  \* the process: "running", "atexit", "exited"
    spc,                  \* passer -> position in _send ("none" outside)
    temp,                 \* passer -> temp_streams, in creation order
    emits,                \* calls of emit/write started so far
    nextId,               \* identity given to the next LogLine pushed
    sent,                 \* batches handed to request.send, in call order
    passlog,              \* finished passes: who, what was drained, result
    faults,               \* ids pushed by calls in which a statement raised
    swallowed,            \* exceptions caught and discarded by emit
    escaped,              \* exceptions that left emit towards the caller
    calc                  \* LabelSpec: self.labels, label_keys, the LogLines
                          \* built by successive _put calls, their grouping

vars == <<ctor, attrs, max_stream_size, current_stream_size, force_send,
          buffer, ppc, prec, pline, pexc, fpc, fi, registered, xpc, spc,
          temp, emits, nextId, sent, passlog, faults, swallowed, escaped,
          calc>>

hvars == <<ctor, attrs, max_stream_size, calc>>
pvars == <<ppc, prec, pline, pexc, emits>>
fvars == <<fpc, fi, registered>>
svars == <<spc, temp, sent, passlog>>
gvars == <<faults, swallowed, escaped>>

NoRecord == [none |-> "none"]
NoLine == [id |-> 0]
NoCalc == [none |-> "none"]

\* The handler when flush_thread.start() (line 79) has returned.
HandlerInit ==
    /\ ctor = 1
    /\ attrs = {}
    /\ max_stream_size \in MaxStreamSizes
    /\ current_stream_size = 0
    /\ force_send = FALSE
    /\ buffer = <<>>
    /\ ppc = [p \in Producers |-> "idle"]
    /\ prec = [p \in Producers |-> NoRecord]
    /\ pline = [p \in Producers |-> NoLine]
    /\ pexc = [p \in Producers |-> ""]
    /\ fpc = "start"
    /\ fi = 0
    /\ registered = FALSE
    /\ xpc = "running"
    /\ spc = [t \in Passers |-> "none"]
    /\ temp = [t \in Passers |-> <<>>]
    /\ emits = 0
    /\ nextId = 1
    /\ sent = <<>>
    /\ passlog = <<>>
    /\ faults = {}
    /\ swallowed = {}
    /\ escaped = {}

Init == HandlerInit /\ calc = NoCalc

\* The process has not ended: its threads can take steps.
Alive == xpc # "exited"

(* ----------------------------------------------------------- constructor *)

\* __init__, lines 81-84, one assignment per step; the flush thread was
\* started at line 79 and runs concurrently with them.
InitAttr ==
    /\ Alive
    /\ ctor \in 1..Len(LateAttrs)
    /\ attrs' = attrs \cup {LateAttrs[ctor]}
    /\ ctor' = ctor + 1
    /\ current_stream_size' =
          IF LateAttrs[ctor] = "_current_stream_size" THEN 0
          ELSE current_stream_size
    /\ force_send' =
          IF LateAttrs[ctor] = "_force_send" THEN FALSE ELSE force_send
    /\ UNCHANGED <<max_stream_size, calc, buffer, pvars, fvars, xpc, svars,
                   nextId, gvars>>

Constructed == ctor > Len(LateAttrs)

(* -------------------------------------------------------------- producer *)

\* emit, lines 93-94: formatter.format(record) raises or returns a dict.
\* Calls start once the constructor has returned the handler, and no call
\* starts after interpreter shutdown has begun.
emit(p) ==
    /\ xpc = "running"
    /\ Constructed
    /\ ppc[p] = "idle"
    /\ emits < MaxEmits
    /\ emits' = emits + 1
    /\ \/ /\ pexc' = [pexc EXCEPT ![p] = "FormatError"]
          /\ ppc' = [ppc EXCEPT ![p] = "end"]
          /\ UNCHANGED prec
       \/ \E r \in FormattedRecords :
             /\ prec' = [prec EXCEPT ![p] = r]
             /\ ppc' = [ppc EXCEPT ![p] = "build"]
             /\ UNCHANGED pexc
    /\ UNCHANGED <<hvars, current_stream_size, force_send, buffer, pline,
                   fvars, xpc, svars, nextId, gvars>>

\* write, line 149: emit(message.record).
write(p) == emit(p)

\* _put, lines 158-165: labels, LogLine (its key) and log_size, all local.
PutBuild(p) ==
    /\ Alive
    /\ ppc[p] = "build"
    /\ LET lbls == DeriveLabels(prec[p])
       IN  IF KeyRaises(lbls)
           THEN /\ pexc' = [pexc EXCEPT ![p] = "TypeError"]
                /\ ppc' = [ppc EXCEPT ![p] = "end"]
                /\ UNCHANGED pline
           ELSE /\ pline' = [pline EXCEPT ![p] = LogLine(0, lbls, prec[p])]
                /\ ppc' = [ppc EXCEPT ![p] = "push"]
                /\ UNCHANGED pexc
    /\ UNCHANGED <<hvars, current_stream_size, force_send, buffer, prec,
                   emits, fvars, xpc, svars, nextId, gvars>>

\* _put, line 166: self.buffer.put(log_line).
PutPush(p) ==
    /\ Alive
    /\ ppc[p] = "push"
    /\ QueueHasRoom(buffer)
    /\ buffer' = QueuePut(buffer, [pline[p] EXCEPT !.id = nextId])
    /\ pline' = [pline EXCEPT ![p].id = nextId]
    /\ nextId' = nextId + 1
    /\ ppc' = [ppc EXCEPT ![p] = "count"]
    /\ UNCHANGED <<hvars, current_stream_size, force_send, prec, pexc,
                   emits, fvars, xpc, svars, gvars>>

\* Mutant of PutCount: the threshold test runs before the counter update
\* and without the "max_stream_size > 0" condition.
PutCountTestFirst(p) ==
    /\ xpc # "exited"
    /\ ppc[p] = "count"
    /\ force_send' = IF current_stream_size >= max_stream_size
                     THEN TRUE ELSE force_send
    /\ pexc' = [pexc EXCEPT ![p] = "AttributeError"]
    /\ faults' = faults \cup {pline[p].id}
    /\ ppc' = [ppc EXCEPT ![p] = "end"]
    /\ UNCHANGED <<hvars, current_stream_size, buffer, prec, pline, emits,
                   fvars, xpc, svars, nextId, swallowed, escaped>>

\* The attribute line 167 reads and writes; the handler's counter is
\* "_current_stream_size".
CounterAttr == "current_stream_size"

\* _put, lines 167-173: "self.current_stream_size += log_size" reads the
\* attribute named CounterAttr, which raises AttributeError when the handler
\* has none; otherwise that attribute is increased and lines 169-173 compare
\* self._current_stream_size with the threshold.
PutCount(p) ==
    /\ Alive
    /\ ppc[p] = "count"
    /\ IF CounterAttr = "_current_stream_size" /\ CounterAttr \in attrs
       THEN LET total == current_stream_size
                            + size(pline[p].labels, pline[p].line)
            IN  /\ current_stream_size' = total
                /\ force_send' = IF max_stream_size > 0
                                    /\ total >= max_stream_size
                                 THEN TRUE ELSE force_send
                /\ UNCHANGED <<pexc, faults>>
       ELSE IF CounterAttr \in attrs
       THEN /\ force_send' = IF max_stream_size > 0
                                /\ current_stream_size >= max_stream_size
                             THEN TRUE ELSE force_send
            /\ UNCHANGED <<current_stream_size, pexc, faults>>
       ELSE /\ pexc' = [pexc EXCEPT ![p] = "AttributeError"]
            /\ faults' = faults \cup {pline[p].id}
            /\ UNCHANGED <<current_stream_size, force_send>>
    /\ ppc' = [ppc EXCEPT ![p] = "end"]
    /\ UNCHANGED <<hvars, buffer, prec, pline, emits, fvars, xpc, svars,
                   nextId, swallowed, escaped>>

\* emit, lines 96-97 and the return: a pending exception is caught and
\* discarded, or leaves emit.
EmitEnd(p) ==
    /\ Alive
    /\ ppc[p] = "end"
    /\ IF pexc[p] = "" THEN UNCHANGED <<swallowed, escaped>>
       ELSE IF EmitCatches(pexc[p])
       THEN /\ swallowed' = swallowed \cup {pexc[p]}
            /\ UNCHANGED escaped
       ELSE /\ escaped' = escaped \cup {pexc[p]}
            /\ UNCHANGED swallowed
    /\ ppc' = [ppc EXCEPT ![p] = "idle"]
    /\ prec' = [prec EXCEPT ![p] = NoRecord]
    /\ pline' = [pline EXCEPT ![p] = NoLine]
    /\ pexc' = [pexc EXCEPT ![p] = ""]
    /\ UNCHANGED <<hvars, current_stream_size, force_send, buffer, emits,
                   fvars, xpc, svars, nextId, faults>>

(* ------------------------------------------------------------ flush pass *)

\* Where _flush continues after i polls of the waiting loop.
AfterPoll(i) == IF i >= PollsPerTimeout THEN "loop" ELSE "wait"

\* The end of a pass of t: control returns to the caller of _send.  In
\* _flush the exception is caught (lines 110, 118) or ends the thread; the
\* atexit machinery discards it, and the process ends after the callback.
EndPass(t, result, exc) ==
    /\ passlog' = Append(passlog, [by |-> t, batch |-> temp[t],
                                   result |-> result])
    /\ spc' = [spc EXCEPT ![t] = "none"]
    /\ temp' = [temp EXCEPT ![t] = <<>>]
    /\ IF t = "flush"
       THEN /\ IF exc # "" /\ ~FlushCatches(exc)
               THEN fpc' = "dead" /\ UNCHANGED fi
               ELSE IF fpc = "send_force"
               THEN fpc' = AfterPoll(fi + 1) /\ fi' = fi + 1
               ELSE fpc' = "loop" /\ UNCHANGED fi
            /\ UNCHANGED xpc
       ELSE /\ xpc' = "exited"
            /\ UNCHANGED <<fpc, fi>>

\* Mutant of SendResetFlag: line 127 assigns True.
SendResetFlagSets(t) ==
    /\ xpc # "exited"
    /\ spc[t] = "reset_flag"
    /\ temp' = [temp EXCEPT ![t] = <<>>]
    /\ force_send' = TRUE
    /\ spc' = [spc EXCEPT ![t] = "reset_size"]
    /\ UNCHANGED <<hvars, current_stream_size, buffer, pvars, fvars, xpc,
                   sent, passlog, nextId, gvars>>

\* _send, lines 125-127: temp_streams = {}; self._force_send = False.
SendResetFlag(t) ==
    /\ Alive
    /\ spc[t] = "reset_flag"
    /\ temp' = [temp EXCEPT ![t] = <<>>]
    /\ force_send' = FALSE
    /\ spc' = [spc EXCEPT ![t] = "reset_size"]
    /\ UNCHANGED <<hvars, current_stream_size, buffer, pvars, fvars, xpc,
                   sent, passlog, nextId, gvars>>

\* _send, line 128: self._current_stream_size = 0.
SendResetSize(t) ==
    /\ Alive
    /\ spc[t] = "reset_size"
    /\ current_stream_size' = 0
    /\ spc' = [spc EXCEPT ![t] = "check"]
    /\ UNCHANGED <<hvars, force_send, buffer, pvars, fvars, xpc, temp,
                   sent, passlog, nextId, gvars>>

\* _send, line 130: "while not self.buffer.empty()".
SendCheck(t) ==
    /\ Alive
    /\ spc[t] = "check"
    /\ spc' = [spc EXCEPT ![t] = IF buffer # <<>> THEN "get" ELSE "finish"]
    /\ UNCHANGED <<hvars, current_stream_size, force_send, buffer, pvars,
                   fvars, xpc, temp, sent, passlog, nextId, gvars>>

\* _send, lines 131-136: self.buffer.get() waits for an item, then the
\* line is appended to the stream of its key.
SendGet(t) ==
    /\ Alive
    /\ spc[t] = "get"
    /\ buffer # <<>>
    /\ temp' = [temp EXCEPT ![t] = Group(@, Head(buffer))]
    /\ buffer' = QueueRest(buffer)
    /\ spc' = [spc EXCEPT ![t] = "check"]
    /\ UNCHANGED <<hvars, current_stream_size, force_send, pvars, fvars,
                   xpc, sent, passlog, nextId, gvars>>

\* _send, lines 138-140: with no stream the pass ends; otherwise
\* streams.serialize() raises, or request.send is called with the batch.
SendFinish(t) ==
    /\ Alive
    /\ spc[t] = "finish"
    /\ IF ~HasStreams(temp[t])
       THEN /\ EndPass(t, "empty", "")
            /\ UNCHANGED sent
       ELSE \/ /\ EndPass(t, "serialize_failed", "SerializeError")
               /\ UNCHANGED sent
            \/ /\ sent' = Append(sent, [by |-> t, batch |-> temp[t]])
               /\ spc' = [spc EXCEPT ![t] = "inflight"]
               /\ UNCHANGED <<fpc, fi, xpc, temp, passlog>>
    /\ UNCHANGED <<hvars, current_stream_size, force_send, buffer, pvars,
                   registered, nextId, gvars>>

\* _send, line 140: request.send returns or raises.
SendReturn(t) ==
    /\ Alive
    /\ spc[t] = "inflight"
    /\ \/ EndPass(t, "sent", "")
       \/ EndPass(t, "send_failed", "SendError")
    /\ UNCHANGED <<hvars, current_stream_size, force_send, buffer, pvars,
                   registered, sent, nextId, gvars>>

(* ---------------------------------------------------------- flush thread *)

\* _flush, line 104: atexit.register(self._send).  A registration made
\* after the exit functions have started to run is never called.
Register ==
    /\ Alive
    /\ fpc = "start"
    /\ fpc' = "loop"
    /\ registered' = (xpc = "running")
    /\ UNCHANGED <<hvars, current_stream_size, force_send, buffer, pvars,
                   fi, xpc, svars, nextId, gvars>>

\* _flush, lines 106-113: a non-empty buffer starts a pass, an empty one
\* starts a waiting period.
LoopCheck ==
    /\ Alive
    /\ fpc = "loop"
    /\ IF buffer # <<>>
       THEN /\ fpc' = "send_buf"
            /\ spc' = [spc EXCEPT !["flush"] = "reset_flag"]
            /\ UNCHANGED fi
       ELSE /\ fpc' = AfterPoll(0)
            /\ fi' = 0
            /\ UNCHANGED spc
    /\ UNCHANGED <<hvars, current_stream_size, force_send, buffer, pvars,
                   registered, xpc, temp, sent, passlog, nextId, gvars>>

\* _flush, lines 113-117: one iteration of the waiting loop: sleep 0.1 s,
\* then read self._force_send, which raises AttributeError outside any try
\* when __init__ has not assigned it yet.
Poll ==
    /\ Alive
    /\ fpc = "wait"
    /\ IF "_force_send" \notin attrs
       THEN fpc' = "dead" /\ UNCHANGED <<fi, spc>>
       ELSE IF force_send
       THEN /\ fpc' = "send_force"
            /\ spc' = [spc EXCEPT !["flush"] = "reset_flag"]
            /\ UNCHANGED fi
       ELSE /\ fpc' = AfterPoll(fi + 1)
            /\ fi' = fi + 1
            /\ UNCHANGED spc
    /\ UNCHANGED <<hvars, current_stream_size, force_send, buffer, pvars,
                   registered, xpc, temp, sent, passlog, nextId, gvars>>

(* -------------------------------------------------------------- shutdown *)

\* Interpreter shutdown after the constructor: the non-daemon threads have
\* ended (no producer is inside a call), then the registered exit function
\* _send runs in the exiting thread while the daemon flush thread is still
\* scheduled; with nothing registered the process ends.
Exit ==
    /\ xpc = "running"
    /\ Constructed
    /\ \A p \in Producers : ppc[p] = "idle"
    /\ IF registered
       THEN /\ xpc' = "atexit"
            /\ spc' = [spc EXCEPT !["exit"] = "reset_flag"]
       ELSE /\ xpc' = "exited"
            /\ UNCHANGED spc
    /\ UNCHANGED <<hvars, current_stream_size, force_send, buffer, pvars,
                   fvars, temp, sent, passlog, nextId, gvars>>

(* --------------------------------------------------------- specification *)

Next ==
    \/ InitAttr
    \/ \E p \in Producers : emit(p)
    \/ \E p \in Producers : write(p)
    \/ \E p \in Producers : PutBuild(p)
    \/ \E p \in Producers : PutPush(p)
    \/ \E p \in Producers : PutCount(p)
    \/ \E p \in Producers : EmitEnd(p)
    \/ Register
    \/ LoopCheck
    \/ Poll
    \/ \E t \in Passers : SendResetFlag(t)
    \/ \E t \in Passers : SendResetSize(t)
    \/ \E t \in Passers : SendCheck(t)
    \/ \E t \in Passers : SendGet(t)
    \/ \E t \in Passers : SendFinish(t)
    \/ \E t \in Passers : SendReturn(t)
    \/ Exit

Spec == Init /\ [][Next]_vars

\* The steps of the flush thread and of a pass of t.
PassStep(t) ==
    \/ SendResetFlag(t) \/ SendResetSize(t) \/ SendCheck(t)
    \/ SendGet(t) \/ SendFinish(t) \/ SendReturn(t)
FlushStep == Register \/ LoopCheck \/ Poll \/ PassStep("flush")

\* Every thread that can run is eventually scheduled and request.send
\* returns; when calls are made and when the process exits is left open.
FairSpec ==
    /\ Spec
    /\ WF_vars(InitAttr)
    /\ WF_vars(FlushStep)
    /\ WF_vars(PassStep("exit"))
    /\ \A p \in Producers :
          WF_vars(PutBuild(p) \/ PutPush(p) \/ PutCount(p) \/ EmitEnd(p))

(* ------------------------------------- label derivation and grouping alone *)

\* Constructor arguments and formatted records of LabelSpec.
LabelBases ==
    { [app |-> "x"], [app |-> "x", env |-> "y"], [app |-> "y", level |-> "x"] }
LabelKeySets == { {}, {"level"}, {"level", "env"}, {"app", "level"} }
LabelRecords ==
    { [msg |-> "hi"],
      [level |-> "y", msg |-> "hi"],
      [env |-> "y", msg |-> "hi"],
      [app |-> "y", level |-> "x", msg |-> "hi"],
      [level |-> "error", msg |-> "boom"] }

\* A handler constructed with base labels and label keys from the sets.
LabelInit ==
    /\ HandlerInit
    /\ \E b \in LabelBases, ks \in LabelKeySets :
          calc = [self_labels |-> b, base0 |-> b, keys |-> ks,
                  bases |-> <<>>, puts |-> <<>>, grouped |-> 0,
                  streams |-> <<>>]

\* One _put call, lines 158-164: the labels and the LogLine of a record
\* (bases keeps the value self.labels had when the call started).
LabelPut ==
    /\ Len(calc.puts) < MaxCalls
    /\ calc.grouped = 0
    /\ \E rec \in LabelRecords :
          LET r == PutLabels(calc.self_labels, calc.keys, rec)
          IN  calc' = [calc EXCEPT
                  !.self_labels = r.self_labels,
                  !.bases = Append(@, calc.self_labels),
                  !.puts = Append(@, LogLine(Len(calc.puts) + 1,
                                             r.labels, rec))]
    /\ UNCHANGED <<ctor, attrs, max_stream_size, current_stream_size,
                   force_send, buffer, pvars, fvars, xpc, svars, nextId,
                   gvars>>

\* One iteration of the drain loop of _send, lines 132-136, on the
\* LogLines in the order they were built.
LabelGroup ==
    /\ calc.grouped < Len(calc.puts)
    /\ calc' = [calc EXCEPT
            !.grouped = @ + 1,
            !.streams = Group(@, calc.puts[calc.grouped + 1])]
    /\ UNCHANGED <<ctor, attrs, max_stream_size, current_stream_size,
                   force_send, buffer, pvars, fvars, xpc, svars, nextId,
                   gvars>>

LabelNext == LabelPut \/ LabelGroup

LabelSpec == LabelInit /\ [][LabelNext]_vars

(* ------------------------------------------------- reading the histories *)

\* The identities of the lines of one stream, in the order appended.
Ids(values) == [i \in 1..Len(values) |-> values[i].id]

RECURSIVE BatchIds(_)
\* The identities held by the streams of one batch.
BatchIds(streams) ==
    IF streams = <<>> THEN <<>>
    ELSE Ids(streams[1].values) \o BatchIds(Tail(streams))

RECURSIVE LogIds(_)
\* The identities held by the batches of a history (sent or passlog).
LogIds(log) ==
    IF log = <<>> THEN <<>>
    ELSE BatchIds(log[1].batch) \o LogIds(Tail(log))

\* How often id occurs in a sequence of identities.
Occ(s, id) == Cardinality({i \in 1..Len(s) : s[i] = id})

BufferIds == [i \in 1..Len(buffer) |-> buffer[i].id]

\* The identities pushed so far.
Pushed == 1..(nextId - 1)

\* Occurrences of id in the accumulators of every pass, running or finished.
Observed(id) ==
    Occ(BatchIds(temp["flush"]), id) + Occ(BatchIds(temp["exit"]), id)
        + Occ(LogIds(passlog), id)

(* ---------------------------------------------------------------- claims *)

\* C1: under every interleaving of producers and passes, each entry whose
\* push completed is either still in the buffer or was dequeued by exactly
\* one pass and appended exactly once to exactly one accumulator; nothing
\* else is ever observed, so once the buffer is empty the entries observed
\* over all passes are exactly the entries pushed.
C1_NoLossNoDuplication ==
    /\ \A id \in Pushed : Occ(BufferIds, id) + Observed(id) = 1
    /\ Len(BufferIds) + Len(BatchIds(temp["flush"]))
          + Len(BatchIds(temp["exit"])) + Len(LogIds(passlog)) = nextId - 1

\* C1 witness: two entries pushed by two different producers have both been
\* drained, by two different finished passes.
C1_Witness ==
    /\ nextId = 3
    /\ buffer = <<>>
    /\ \E i, j \in 1..Len(passlog) :
          /\ i # j
          /\ Occ(BatchIds(passlog[i].batch), 1) = 1
          /\ Occ(BatchIds(passlog[j].batch), 2) = 1

\* Every stream of the batch holds its lines in push order, and lines with
\* equal labels are in one stream.
OrderedBatch(streams) ==
    /\ \A i \in 1..Len(streams) :
          \A a, b \in 1..Len(streams[i].values) :
             a < b => streams[i].values[a].id < streams[i].values[b].id
    /\ \A i, j \in 1..Len(streams) :
          streams[i].labels = streams[j].labels => i = j

\* C2: the lines of one LabelSet drained in one pass are in one accumulator
\* in push order, and over the passes the lines of a stream are handed to
\* the Transport in push order.
C2_StreamOrder ==
    /\ \A t \in Passers : OrderedBatch(temp[t])
    /\ \A i \in 1..Len(sent) : OrderedBatch(sent[i].batch)
    /\ \A i, j \in 1..Len(sent) :
          i < j =>
            \A a \in 1..Len(sent[i].batch), b \in 1..Len(sent[j].batch) :
               sent[i].batch[a].labels = sent[j].batch[b].labels =>
                  \A m \in 1..Len(sent[i].batch[a].values),
                     n \in 1..Len(sent[j].batch[b].values) :
                     sent[i].batch[a].values[m].id
                        < sent[j].batch[b].values[n].id

RECURSIVE BufferBytes(_)
\* The summed size() of the entries of a buffer.
BufferBytes(buf) ==
    IF buf = <<>> THEN 0
    ELSE size(buf[1].labels, buf[1].line) + BufferBytes(Tail(buf))

\* No pass has started yet: everything pushed is still buffered.
NoPassYet == passlog = <<>> /\ \A t \in Passers : spc[t] = "none"

\* C3: with max_stream_size = N > 0, once the entries pushed since the last
\* pass sum to N or more, the record call that reached N has set the
\* force-flush flag (which the waiting loop polls).
C3_ThresholdSetsFlag ==
    ( /\ max_stream_size > 0
      /\ NoPassYet
      /\ \A p \in Producers : ppc[p] \in {"idle", "end"}
      /\ BufferBytes(buffer) >= max_stream_size )
    => force_send

C5_FailedRecordDropped ==
    \A id \in faults :
       (\A p \in Producers : pline[p].id # id) =>
          Occ(BufferIds, id) + Observed(id) = 0

\* C6: a failure of serialization or of request.send inside a pass of the
\* flush thread never ends the flush thread, and no entry is handed to the
\* Transport twice or put back into the buffer.
C6_FailureSwallowedNoResend ==
    /\ fpc = "dead" => \A i \in 1..Len(passlog) : passlog[i].by # "flush"
    /\ \A id \in Pushed : Occ(LogIds(sent), id) <= 1
    /\ \A id \in Pushed : Occ(LogIds(sent), id) = 1 => Occ(BufferIds, id) = 0

\* C6 witness: a pass of the flush thread failed in request.send, and a
\* later pass of the flush thread sent an entry pushed afterwards.
C6_Witness ==
    \E i, j \in 1..Len(passlog) :
       /\ i < j
       /\ passlog[i].by = "flush" /\ passlog[i].result = "send_failed"
       /\ passlog[j].by = "flush" /\ passlog[j].result = "sent"
       /\ BatchIds(passlog[i].batch) = <<1>>
       /\ BatchIds(passlog[j].batch) = <<2>>
       /\ Occ(LogIds(sent), 1) = 1

\* The finished passes of the exiting thread.
ExitPasses == {i \in 1..Len(passlog) : passlog[i].by = "exit"}

\* C7: when the process has ended, exactly one final pass has run, and
\* every entry not drained by a pass of the flush thread was drained by it
\* and handed to request.send.
C7_OneFinalFlush ==
    xpc = "exited" =>
       /\ Cardinality(ExitPasses) = 1
       /\ \A id \in Pushed :
             (\A i \in 1..Len(passlog) :
                 passlog[i].by = "flush"
                    => Occ(BatchIds(passlog[i].batch), id) = 0)
             /\ Occ(BatchIds(temp["flush"]), id) = 0
             => \E i \in 1..Len(sent) :
                   /\ sent[i].by = "exit"
                   /\ Occ(BatchIds(sent[i].batch), id) = 1

\* C8: at most one request.send call is in progress.
C8_OneSendInFlight == Cardinality({t \in Passers : spc[t] = "inflight"}) <= 1

\* C9: request.send is never called with an empty batch, and a pass that
\* dequeued nothing made no call.
C9_NoEmptySend ==
    /\ \A i \in 1..Len(sent) :
          /\ sent[i].batch # <<>>
          /\ \A a \in 1..Len(sent[i].batch) : sent[i].batch[a].values # <<>>
    /\ \A i \in 1..Len(passlog) :
          passlog[i].batch = <<>> <=> passlog[i].result = "empty"
    /\ Len(sent) = Cardinality({i \in 1..Len(passlog) :
                       passlog[i].result \in {"sent", "send_failed"}})
                   + Cardinality({t \in Passers : spc[t] = "inflight"})

\* C9 witness: after one batch was sent, the shutdown pass ran on an empty
\* buffer, dequeued nothing and made no further send.
C9_Witness ==
    /\ xpc = "exited"
    /\ Len(sent) = 1
    /\ \E i \in 1..Len(passlog) :
          passlog[i].by = "exit" /\ passlog[i].result = "empty"

\* The next statement of a record call in progress.
ProducerStep(p) == PutBuild(p) \/ PutPush(p) \/ PutCount(p) \/ EmitEnd(p)

\* C10: a record call in progress can always take its next step, whatever
\* the flush controller is doing and however many entries are buffered.
C10_ProducerNeverBlocks ==
    \A p \in Producers : ppc[p] # "idle" => ENABLED ProducerStep(p)

\* C10 witness: while a request.send call is in progress, one producer has
\* pushed its entry and goes on, and the other is inside a call as well.
C10_Witness ==
    /\ spc["flush"] = "inflight"
    /\ \E p \in Producers : ppc[p] = "count" /\ Occ(BufferIds, pline[p].id) = 1
    /\ \A p \in Producers : ppc[p] # "idle"

(* ------------------------------------------------ claims on the labels *)

\* The put calls made so far in LabelSpec.
Calls == 1..Len(calc.puts)

\* C11: the LabelSet of the entry a record call creates is the base
\* LabelSet overridden and extended by exactly the fields that are label
\* keys and present in the record; other fields and absent keys add nothing.
C11_LabelDerivation ==
    /\ \A i \in Calls :
          LET base == calc.bases[i]
              rec == calc.puts[i].line
              got == calc.puts[i].labels
          IN  /\ DOMAIN got = DOMAIN base \cup (calc.keys \cap DOMAIN rec)
              /\ \A k \in DOMAIN got :
                    got[k] = IF k \in calc.keys /\ k \in DOMAIN rec
                             THEN rec[k] ELSE base[k]
    /\ DeriveLabelsFrom([app |-> "x"], {"level"},
                        [level |-> "error", msg |-> "boom"])
          = [app |-> "x", level |-> "error"]

\* C11 witness: a call whose record carries a label key that shadows a base
\* label with another value, and a field that is no label key.
C11_Witness ==
    \E i \in Calls :
       /\ \E k \in calc.keys \cap DOMAIN calc.bases[i] :
             /\ k \in DOMAIN calc.puts[i].line
             /\ calc.puts[i].line[k] # calc.bases[i][k]
       /\ "msg" \in DOMAIN calc.puts[i].line
       /\ "msg" \notin DOMAIN calc.puts[i].labels

\* How many labels of d have the value v.
ValueCount(d, v) == Cardinality({k \in DOMAIN d : d[k] = v})

\* The label values of a and b are the same multiset.
SameValues(a, b) ==
    \A v \in {a[k] : k \in DOMAIN a} \cup {b[k] : k \in DOMAIN b} :
       ValueCount(a, v) = ValueCount(b, v)

\* The stream of the grouping that holds the line of call i.
StreamOf(i) ==
    {n \in 1..Len(calc.streams) : Occ(Ids(calc.streams[n].values), i) = 1}

\* C12: LabelSets with the same multiset of values have the same StreamKey
\* (the sorted values joined with "_"), whatever their names, and their
\* entries are grouped into the same accumulator.
C12_KeyFromValues ==
    /\ \A i, j \in Calls :
          SameValues(calc.puts[i].labels, calc.puts[j].labels)
             => /\ calc.puts[i].key = calc.puts[j].key
                /\ (i <= calc.grouped /\ j <= calc.grouped)
                      => StreamOf(i) = StreamOf(j) /\ StreamOf(i) # {}
    /\ _key_from_labels([level |-> "error", app |-> "x"]) = "error_x"

\* C12 witness: two grouped entries whose LabelSets differ in a label name
\* but hold the same values.
C12_Witness ==
    \E i, j \in Calls :
       /\ i <= calc.grouped /\ j <= calc.grouped
       /\ DOMAIN calc.puts[i].labels # DOMAIN calc.puts[j].labels
       /\ SameValues(calc.puts[i].labels, calc.puts[j].labels)

\* C18: record calls leave the base LabelSet as constructed, so a label a
\* record promoted is not in the LabelSet of a later record without it.
C18_BaseLabelsUnchanged ==
    /\ calc.self_labels = calc.base0
    /\ \A i \in Calls : calc.bases[i] = calc.base0
    /\ \A i, j \in Calls :
          i < j =>
            \A k \in calc.keys :
               (k \in DOMAIN calc.puts[i].line
                  /\ k \notin DOMAIN calc.puts[j].line)
               => IF k \in DOMAIN calc.base0
                  THEN calc.puts[j].labels[k] = calc.base0[k]
                  ELSE k \notin DOMAIN calc.puts[j].labels

\* C18 witness: a call promoted a label that shadows a base label and a
\* label the base does not have; the next record has neither field.
C18_Witness ==
    /\ Len(calc.puts) = 2
    /\ \E k \in calc.keys \cap DOMAIN calc.base0 :
          /\ k \in DOMAIN calc.puts[1].line
          /\ calc.puts[1].line[k] # calc.base0[k]
    /\ \E k \in calc.keys \ DOMAIN calc.base0 :
          k \in DOMAIN calc.puts[1].line
    /\ calc.keys \cap DOMAIN calc.puts[2].line = {}

(* ----------------------------------------- claims on the flush controller *)

\* C13: the force-flush flag becomes set only in a record call made with a
\* threshold N > 0 whose running total has reached N; with threshold 0 the
\* flag is never set and no size-triggered pass is ever started.
C13_FlagOnlyAtThreshold ==
    /\ [](max_stream_size = 0 => ~force_send /\ fpc # "send_force")
    /\ [][ (force_send' /\ ~force_send) =>
              /\ max_stream_size > 0
              /\ current_stream_size' >= max_stream_size
              /\ \E p \in Producers : ppc[p] = "count" /\ ppc'[p] = "end"
         ]_vars

\* C13 witness: with threshold 0, entries of 63 bytes and more were pushed,
\* the calls have returned, and the waiting loop has polled the flag.
C13_Witness ==
    /\ max_stream_size = 0
    /\ NoPassYet
    /\ BufferBytes(buffer) >= 63
    /\ \A p \in Producers : ppc[p] = "idle"
    /\ fpc = "wait" /\ fi >= 1
    /\ ~force_send

\* The positions of _send after lines 127-128.
AfterReset == {"check", "get", "finish", "inflight"}

C15_CounterMatchesPushed ==
    ( /\ "_current_stream_size" \in attrs
      /\ NoPassYet
      /\ \A p \in Producers : ppc[p] = "idle" )
    => current_stream_size = BufferBytes(buffer)

\* C16: with the threads scheduled fairly and sends returning, every entry
\* in the buffer of a running process is eventually dequeued by a pass.
C16_EventuallyDrained ==
    \A id \in 1..MaxEmits :
       (Occ(BufferIds, id) = 1 /\ xpc = "running")
          ~> (Observed(id) = 1 \/ xpc # "running")

\* The streams of a batch are one per key, each seeded with the labels of
\* its first line and holding only lines of its own key, each line once.
WellGrouped(streams) ==
    /\ \A a, b \in 1..Len(streams) : streams[a].key = streams[b].key => a = b
    /\ \A a \in 1..Len(streams) :
          /\ streams[a].values # <<>>
          /\ streams[a].labels = DeriveLabels(streams[a].values[1].line)
          /\ \A n \in 1..Len(streams[a].values) :
                _key_from_labels(DeriveLabels(streams[a].values[n].line))
                   = streams[a].key
    /\ \A id \in Pushed : Occ(BatchIds(streams), id) <= 1

\* C17: in every pass there is exactly one accumulator per StreamKey of the
\* drained entries, seeded with the labels of the first entry of the key,
\* and each drained line is in the accumulator of its key only; the batch
\* handed to request.send is those accumulators.
C17_OneAccumulatorPerKey ==
    /\ \A t \in Passers : WellGrouped(temp[t])
    /\ \A i \in 1..Len(sent) : WellGrouped(sent[i].batch)
    /\ \A t \in Passers :
          spc[t] = "inflight" =>
             \E i \in 1..Len(sent) :
                sent[i].by = t /\ sent[i].batch = temp[t]
    /\ \A i \in 1..Len(passlog) :
          passlog[i].result \in {"sent", "send_failed"} =>
             \E j \in 1..Len(sent) :
                sent[j].by = passlog[i].by
                   /\ sent[j].batch = passlog[i].batch

\* C17 witness: a batch handed to request.send holds two entries of one
\* key in a single stream.
C17_Witness ==
    \E i \in 1..Len(sent) :
       /\ Len(sent[i].batch) = 1
       /\ Len(sent[i].batch[1].values) = 2

\* C19: the flush thread never reads a handler attribute before __init__
\* has assigned it, so it never ends with an uncaught error.
C19_FlushThreadSeesInitialised == fpc # "dead"

\* C20: the drain loop of the shutdown pass never waits in buffer.get() on
\* an empty buffer when no producer is left to push.
C20_FinalFlushNeverBlocks ==
    ~( /\ xpc = "atexit"
       /\ spc["exit"] = "get"
       /\ buffer = <<>>
       /\ \A p \in Producers : ppc[p] = "idle" )

====
